---- MODULE Spec2Model ----
(***************************************************************************)
(* Model of the emotion state machine of fsm_engine.py (class EmotionFSM): *)
(* the machine's fields, its three methods, and the pure selection logic   *)
(* inside update_from_nlp; and of the host script app.py that drives the   *)
(* machine from browser sessions.                                          *)
(*                                                                         *)
(* A label is a Python str, modelled as a sequence of characters; a        *)
(* character is a one-letter string, or the name of its code point for a   *)
(* character outside ASCII.  A score distribution is a Python dict,        *)
(* modelled as the sequence of its items in iteration order, the labels    *)
(* pairwise distinct.                                                      *)
(***************************************************************************)
EXTENDS Integers, Sequences, FiniteSets, TLC

VARIABLES state, mood_score, emotion_scores, sentiment_scores, op, arg, ret, err,
          pc, run, session_state, locals

\* the host of app.py, per browser session: the position of the session's
\* script run, the widget values of the run, st.session_state, and the local
\* variables of handle_audio_cycle
hostvars == <<pc, run, session_state, locals>>

vars == <<state, mood_score, emotion_scores, sentiment_scores, op, arg, ret, err,
          pc, run, session_state, locals>>

(***************************************************************************)
(* Bounds of the model.                                                    *)
(***************************************************************************)
\* scores are drawn from 0..MaxWeight (only their order matters to max())
MaxWeight == 1
\* most items the classifier output held by the host has, the emotion and
\* the sentiment distribution taken together
MaxItems == 3
\* longest distribution passed by a call that also chooses its arguments
CallLen == 1
\* browser sessions that share the cached machine
NumSessions == 2

(***************************************************************************)
(* Python values.                                                          *)
(***************************************************************************)
None == "None"

\* str.lower() / str.upper(), character by character
UpperLetters ==
  <<"A","B","C","D","E","F","G","H","I","J","K","L","M",
    "N","O","P","Q","R","S","T","U","V","W","X","Y","Z">>

LowerLetters ==
  <<"a","b","c","d","e","f","g","h","i","j","k","l","m",
    "n","o","p","q","r","s","t","u","v","w","x","y","z">>

\* LATIN SMALL LETTER LONG S: a lower-case letter whose upper case is "S"
LongS == "U+017F"

IsUpperLetter(c) == \E i \in 1..Len(UpperLetters) : UpperLetters[i] = c

IsLowerLetter(c) == \E i \in 1..Len(LowerLetters) : LowerLetters[i] = c

LowerChar(c) ==
  IF IsUpperLetter(c)
    THEN LowerLetters[CHOOSE i \in 1..Len(UpperLetters) : UpperLetters[i] = c]
    ELSE c

UpperChar(c) ==
  IF IsLowerLetter(c)
    THEN UpperLetters[CHOOSE i \in 1..Len(LowerLetters) : LowerLetters[i] = c]
    ELSE IF c = LongS THEN "S" ELSE c

\* the characters labels are written in
Chars ==
  {UpperLetters[i] : i \in 1..Len(UpperLetters)}
    \cup {LowerLetters[i] : i \in 1..Len(LowerLetters)}
    \cup {LongS, "_"}

LowerTable == [c \in Chars |-> LowerChar(c)]

UpperTable == [c \in Chars |-> UpperChar(c)]

Lower(s) == [i \in 1..Len(s) |-> LowerTable[s[i]]]

Upper(s) == [i \in 1..Len(s) |-> UpperTable[s[i]]]

(***************************************************************************)
(* EmotionFSM: class attributes.                                           *)
(***************************************************************************)
states == <<"Neutral", "Happy", "Sad", "Angry", "Surprised", "Fearful", "Curious">>

States == {states[i] : i \in 1..Len(states)}

\* variant: to_neutral declared for the source Happy only
transitions_def_NeutralFromHappy ==
  << [trigger |-> "to_happy",     source |-> "*", dest |-> "Happy"],
     [trigger |-> "to_sad",       source |-> "*", dest |-> "Sad"],
     [trigger |-> "to_angry",     source |-> "*", dest |-> "Angry"],
     [trigger |-> "to_neutral",   source |-> "Happy", dest |-> "Neutral"],
     [trigger |-> "to_surprised", source |-> "*", dest |-> "Surprised"],
     [trigger |-> "to_fearful",   source |-> "*", dest |-> "Fearful"],
     [trigger |-> "to_curious",   source |-> "*", dest |-> "Curious"] >>

\* variant: from Happy, to_sad first passes through Neutral
transitions_def_Inertia ==
  << [trigger |-> "to_sad",       source |-> "Happy", dest |-> "Neutral"],
     [trigger |-> "to_happy",     source |-> "*", dest |-> "Happy"],
     [trigger |-> "to_sad",       source |-> "*", dest |-> "Sad"],
     [trigger |-> "to_angry",     source |-> "*", dest |-> "Angry"],
     [trigger |-> "to_neutral",   source |-> "*", dest |-> "Neutral"],
     [trigger |-> "to_surprised", source |-> "*", dest |-> "Surprised"],
     [trigger |-> "to_fearful",   source |-> "*", dest |-> "Fearful"],
     [trigger |-> "to_curious",   source |-> "*", dest |-> "Curious"] >>

transitions_def ==
  << [trigger |-> "to_happy",     source |-> "*", dest |-> "Happy"],
     [trigger |-> "to_sad",       source |-> "*", dest |-> "Sad"],
     [trigger |-> "to_angry",     source |-> "*", dest |-> "Angry"],
     [trigger |-> "to_neutral",   source |-> "*", dest |-> "Neutral"],
     [trigger |-> "to_surprised", source |-> "*", dest |-> "Surprised"],
     [trigger |-> "to_fearful",   source |-> "*", dest |-> "Fearful"],
     [trigger |-> "to_curious",   source |-> "*", dest |-> "Curious"] >>

(***************************************************************************)
(* The label-to-state map of update_from_nlp, and the sentiment labels.    *)
(***************************************************************************)
joy          == <<"j","o","y">>
happy        == <<"h","a","p","p","y">>
sadness      == <<"s","a","d","n","e","s","s">>
sad          == <<"s","a","d">>
anger        == <<"a","n","g","e","r">>
angry        == <<"a","n","g","r","y">>
surprise     == <<"s","u","r","p","r","i","s","e">>
surprised    == <<"s","u","r","p","r","i","s","e","d">>
fear         == <<"f","e","a","r">>
fearful      == <<"f","e","a","r","f","u","l">>
neutral      == <<"n","e","u","t","r","a","l">>
disgust      == <<"d","i","s","g","u","s","t">>
trust        == <<"t","r","u","s","t">>
anticipation == <<"a","n","t","i","c","i","p","a","t","i","o","n">>
curious      == <<"c","u","r","i","o","u","s">>

mapping ==
  (joy :> "Happy") @@ (happy :> "Happy") @@
  (sadness :> "Sad") @@ (sad :> "Sad") @@
  (anger :> "Angry") @@ (angry :> "Angry") @@
  (surprise :> "Surprised") @@ (surprised :> "Surprised") @@
  (fear :> "Fearful") @@ (fearful :> "Fearful") @@
  (neutral :> "Neutral") @@
  (disgust :> "Angry") @@ (trust :> "Curious") @@
  (anticipation :> "Curious") @@ (curious :> "Curious")

POSITIVE == <<"P","O","S","I","T","I","V","E">>
NEGATIVE == <<"N","E","G","A","T","I","V","E">>

\* dict.get(key) with the default None
MappingGet(key) == IF key \in DOMAIN mapping THEN mapping[key] ELSE None

(***************************************************************************)
(* update_from_nlp: the selection logic.                                   *)
(***************************************************************************)
\* variant: the running maximum is replaced by an equal score too
RECURSIVE MaxFromLast(_, _, _)
MaxFromLast(scores, i, best) ==
  IF i > Len(scores)
    THEN best
    ELSE MaxFromLast(scores, i + 1,
                     IF scores[i].score >= scores[best].score THEN i ELSE best)

\* max(items, key=score) over positions i..Len(scores): the running maximum
\* is replaced only by a strictly greater score, so the first maximum wins
RECURSIVE MaxFrom(_, _, _)
MaxFrom(scores, i, best) ==
  IF i > Len(scores)
    THEN best
    ELSE MaxFrom(scores, i + 1,
                 IF scores[i].score > scores[best].score THEN i ELSE best)

\* max(...)[0] if scores else None; <<>> stands for None, <<label>> for a label
TopLabel(scores) ==
  IF scores # <<>> THEN << scores[MaxFrom(scores, 2, 1)].label >> ELSE <<>>

\* truth value of "label or None": None and the empty str are false
Truthy(top) == top # <<>> /\ top[1] # <<>>

\* variant: the sentiment is consulted before the emotion
ChosenStateSentimentFirst(top_emo, top_sent) ==
  IF Truthy(top_sent)
    THEN IF Upper(top_sent[1]) = POSITIVE THEN "Happy"
         ELSE IF Upper(top_sent[1]) = NEGATIVE THEN "Sad"
         ELSE "Neutral"
    ELSE IF Truthy(top_emo) THEN MappingGet(Lower(top_emo[1])) ELSE None

\* chosen_state after the two if-statements
ChosenState(top_emo, top_sent) ==
  LET fromEmotion == IF Truthy(top_emo) THEN MappingGet(Lower(top_emo[1])) ELSE None
  IN  IF fromEmotion = None /\ Truthy(top_sent)
        THEN IF Upper(top_sent[1]) = POSITIVE THEN "Happy"
             ELSE IF Upper(top_sent[1]) = NEGATIVE THEN "Sad"
             ELSE "Neutral"
        ELSE fromEmotion

\* variant: the sentiment label is compared without upper()
SelectNoUpper(emotion, sentiment) ==
  LET top_emo == TopLabel(emotion)
      top_sent == TopLabel(sentiment)
      fromEmotion == IF Truthy(top_emo) THEN MappingGet(Lower(top_emo[1])) ELSE None
  IN  IF fromEmotion = None
        THEN IF ~Truthy(top_sent) THEN "Neutral"
             ELSE IF top_sent[1] = POSITIVE THEN "Happy"
             ELSE IF top_sent[1] = NEGATIVE THEN "Sad"
             ELSE "Neutral"
        ELSE fromEmotion

\* variant: the heaviest emotion label that the map knows is used
SelectBestMapped(emotion, sentiment) ==
  LET known == SelectSeq(emotion, LAMBDA item : Lower(item.label) \in DOMAIN mapping)
      chosen_state == ChosenState(TopLabel(known), TopLabel(sentiment))
  IN  IF chosen_state = None THEN "Neutral" ELSE chosen_state

\* the argument update_from_nlp passes on: chosen_state or "Neutral"
Select(emotion, sentiment) ==
  LET chosen_state == ChosenState(TopLabel(emotion), TopLabel(sentiment))
  IN  IF chosen_state = None THEN "Neutral" ELSE chosen_state

(***************************************************************************)
(* _apply_transition and the triggers of the Machine.                      *)
(***************************************************************************)
TriggerOf ==
  [t \in States |->
     CASE t = "Happy"     -> "to_happy"
       [] t = "Sad"       -> "to_sad"
       [] t = "Angry"     -> "to_angry"
       [] t = "Neutral"   -> "to_neutral"
       [] t = "Surprised" -> "to_surprised"
       [] t = "Fearful"   -> "to_fearful"
       [] t = "Curious"   -> "to_curious"]

\* variant: the default trigger is to_happy
TriggerForDefaultHappy(target_state) ==
  IF target_state \in DOMAIN TriggerOf THEN TriggerOf[target_state] ELSE "to_happy"

\* mapping.get(target_state, self.to_neutral)
TriggerFor(target_state) ==
  IF target_state \in DOMAIN TriggerOf THEN TriggerOf[target_state] ELSE "to_neutral"

\* variant: the source "*" is not read as a wildcard
CandidatesExactSource(trigger, src) ==
  { i \in 1..Len(transitions_def) :
      /\ transitions_def[i].trigger = trigger
      /\ transitions_def[i].source = src }

\* the transitions a trigger may take from a source state, in definition order
Candidates(trigger, src) ==
  { i \in 1..Len(transitions_def) :
      /\ transitions_def[i].trigger = trigger
      /\ transitions_def[i].source \in {"*", src} }

\* trigger(): the first candidate is taken; without one the Machine raises
Fire(trigger, src) ==
  LET c == Candidates(trigger, src)
  IN  IF c = {}
        THEN [state |-> src, err |-> "MachineError"]
        ELSE [state |-> transitions_def[CHOOSE i \in c : \A j \in c : i <= j].dest,
              err   |-> "none"]

\* variant: the target is assigned to the state without a trigger
ApplyResultAssign(src, target_state) == [state |-> target_state, err |-> "none"]

ApplyResult(src, target_state) == Fire(TriggerFor(target_state), src)

(***************************************************************************)
(* get_graphviz_source: the digraph handed to the renderer.                *)
(***************************************************************************)
Node(s, current) ==
  IF s = current
    THEN [name |-> s, style |-> "filled", color |-> "lightblue"]
    ELSE [name |-> s, style |-> "", color |-> ""]

\* the pairs (s, t) in the order of the two nested loops
Pairs ==
  [k \in 1..(Len(states) * Len(states)) |->
     << states[((k - 1) \div Len(states)) + 1], states[((k - 1) % Len(states)) + 1] >>]

\* variant: the loops do not skip s = t
KeepsEdgeAll(p) == TRUE

KeepsEdge(p) == p[1] # p[2]

Edge(p) == [tail |-> p[1], head |-> p[2], arrowhead |-> "vee"]

GraphvizSource(current) ==
  LET kept == SelectSeq(Pairs, KeepsEdge)
  IN  [rankdir |-> "LR",
       nodes   |-> [i \in 1..Len(states) |-> Node(states[i], current)],
       edges   |-> [i \in 1..Len(kept) |-> Edge(kept[i])]]

\* the source for each current state, computed once
GraphTable == [current \in States |-> GraphvizSource(current)]

(***************************************************************************)
(* Inputs.                                                                 *)
(***************************************************************************)
Weights == 0..MaxWeight

SAD        == <<"S","A","D">>
LongSad    == <<LongS,"a","d">>
Unknown    == <<"u","n","k","n","o","w","n","_","l","a","b","e","l">>
EmptyLabel == <<>>
positive   == <<"p","o","s","i","t","i","v","e">>
Negative   == <<"N","e","g","a","t","i","v","e">>
MIXED      == <<"M","I","X","E","D">>

EmotionLabels == {joy, SAD, LongSad, Unknown, EmptyLabel}

SentimentLabels == {POSITIVE, positive, Negative, MIXED, EmptyLabel}

CallEmotionLabels == {joy, SAD, Unknown}

CallSentimentLabels == {Negative}

\* the dicts of at most n items with keys in labels and values in Weights
Dists(labels, n) ==
  UNION { { d \in [1..k -> [label : labels, score : Weights]] :
              \A i, j \in 1..k : i # j => d[i].label # d[j].label } : k \in 0..n }

\* the classifier outputs a call may bring with it
CallEmotions == Dists(CallEmotionLabels, CallLen)

CallSentiments == Dists(CallSentimentLabels, CallLen)

\* targets handed to _apply_transition: the states and two foreign identifiers
Targets == States \cup {"Bored", ""}

(***************************************************************************)
(* The host: what a session holds before its script has run.               *)
(***************************************************************************)
Sessions == 1..NumSessions

NoLocals == [emo_pred |-> <<>>, sent_pred |-> <<>>, previous |-> None, new_state |-> None]

\* no script run yet: the checkbox has its default value, the stop button
\* was not pressed, no cycle of the auto loop was made and no rerun asked for,
\* st.session_state is the empty dict
HostInit ==
  /\ pc = [s \in Sessions |-> "idle"]
  /\ run = [s \in Sessions |->
             [auto_mode |-> FALSE, stop_auto |-> FALSE,
              auto_cycle |-> FALSE, rerun |-> FALSE]]
  /\ session_state = [s \in Sessions |-> <<>>]
  /\ locals = [s \in Sessions |-> NoLocals]

(***************************************************************************)
(* The machine.                                                            *)
(***************************************************************************)
Init ==
  /\ state = "Neutral"
  /\ mood_score = [s \in States |-> 0]
  /\ emotion_scores = <<>>
  /\ sentiment_scores = <<>>
  /\ op = "init"
  /\ arg = None
  /\ ret = None
  /\ err = "none"
  /\ HostInit

\* variant: no transition is applied when no state was chosen
UpdateFromNlpSkip(emotion, sentiment) ==
  LET chosen_state == ChosenState(TopLabel(emotion), TopLabel(sentiment))
      r == IF chosen_state = None
             THEN [state |-> state, err |-> "none"]
             ELSE ApplyResult(state, chosen_state)
  IN  /\ emotion_scores' = emotion
      /\ sentiment_scores' = sentiment
      /\ state' = r.state
      /\ err' = r.err
      /\ ret' = IF r.err = "none" THEN r.state ELSE None
      /\ op' = "update"
      /\ arg' = None
      /\ UNCHANGED mood_score

\* fsm.update_from_nlp(emotion, sentiment)
UpdateFromNlp(emotion, sentiment) ==
  LET r == ApplyResult(state, Select(emotion, sentiment))
  IN  /\ emotion_scores' = emotion
      /\ sentiment_scores' = sentiment
      /\ state' = r.state
      /\ err' = r.err
      /\ ret' = IF r.err = "none" THEN r.state ELSE None
      /\ op' = "update"
      /\ arg' = None
      /\ UNCHANGED mood_score

\* a call that brings its own classifier output
Update ==
  \E emotion \in CallEmotions, sentiment \in CallSentiments :
    UpdateFromNlp(emotion, sentiment)

\* fsm._apply_transition(target_state)
ApplyTransition(target_state) ==
  LET r == ApplyResult(state, target_state)
  IN  /\ state' = r.state
      /\ err' = r.err
      /\ ret' = None
      /\ op' = "apply"
      /\ arg' = target_state
      /\ UNCHANGED <<mood_score, emotion_scores, sentiment_scores>>

\* variant: rendering counts the visit in mood_score
GetGraphvizSourceCounts ==
  /\ ret' = GraphvizSource(state)
  /\ err' = "none"
  /\ op' = "graph"
  /\ arg' = None
  /\ mood_score' = [mood_score EXCEPT ![state] = 1]
  /\ UNCHANGED <<state, emotion_scores, sentiment_scores>>

\* fsm.get_graphviz_source()
GetGraphvizSource ==
  /\ ret' = GraphTable[state]
  /\ err' = "none"
  /\ op' = "graph"
  /\ arg' = None
  /\ UNCHANGED <<state, mood_score, emotion_scores, sentiment_scores>>

\* fsm.state, read by the host
ReadState ==
  /\ ret' = state
  /\ err' = "none"
  /\ op' = "read"
  /\ arg' = None
  /\ UNCHANGED <<state, mood_score, emotion_scores, sentiment_scores>>

Next ==
  \/ Update /\ UNCHANGED hostvars
  \/ \E target_state \in Targets : ApplyTransition(target_state) /\ UNCHANGED hostvars
  \/ GetGraphvizSource /\ UNCHANGED hostvars
  \/ ReadState /\ UNCHANGED hostvars

Spec == Init /\ [][Next]_vars

(***************************************************************************)
(* The selection as a function of the classifier output the host holds:    *)
(* the output is fixed at the start and update_from_nlp is applied to it   *)
(* from every state the machine can be brought into.                       *)
(***************************************************************************)
InitSelect ==
  /\ state = "Neutral"
  /\ mood_score = [s \in States |-> 0]
  /\ emotion_scores \in Dists(EmotionLabels, MaxItems)
  /\ sentiment_scores \in Dists(SentimentLabels, MaxItems - Len(emotion_scores))
  /\ op = "init"
  /\ arg = None
  /\ ret = None
  /\ err = "none"
  /\ HostInit

UpdateHeld == UpdateFromNlp(emotion_scores, sentiment_scores)

NextSelect ==
  \/ UpdateHeld /\ UNCHANGED hostvars
  \/ \E target_state \in Targets : ApplyTransition(target_state) /\ UNCHANGED hostvars

SpecSelect == InitSelect /\ [][NextSelect]_vars

(***************************************************************************)
(* The host script of app.py.  Every browser session runs the script in a  *)
(* thread of its own, from top to bottom, once per widget event or         *)
(* requested rerun; load_pipeline is cached, so all sessions hold the same *)
(* machine.  A run is cut where another session's thread may run between   *)
(* two accesses to the machine: before previous = fsm.state, before        *)
(* update_from_nlp, and before the rendering that reads fsm.state again.   *)
(***************************************************************************)
\* dict.get(key, default) and dict[key] = value
Get(dict, key, default) == IF key \in DOMAIN dict THEN dict[key] ELSE default

Put(dict, key, value) ==
  [k \in DOMAIN dict \cup {key} |-> IF k = key THEN value ELSE dict[k]]

\* the classifier outputs pipe.predict hands to the host
Predictions ==
  { [emo  |-> << [label |-> sadness, score |-> 1] >>,
     sent |-> << [label |-> NEGATIVE, score |-> 1] >>],
    [emo  |-> << [label |-> surprise, score |-> 1] >>,
     sent |-> <<>>] }

\* variant: the stop button is handled before the checkbox
AfterHandlersStopFirst(dict, auto_mode, stop_auto) ==
  LET a == IF stop_auto THEN Put(dict, "auto_running", FALSE) ELSE dict
  IN  IF auto_mode THEN Put(a, "auto_running", TRUE) ELSE a

\* st.session_state after "if auto_mode: ..." and "if stop_auto: ..."
AfterHandlers(dict, auto_mode, stop_auto) ==
  LET a == IF auto_mode THEN Put(dict, "auto_running", TRUE) ELSE dict
  IN  IF stop_auto THEN Put(a, "auto_running", FALSE) ELSE a

\* where the run goes after the handlers: into the auto loop, or to its end
AfterHandlersPc(dict) ==
  IF Get(dict, "auto_running", FALSE) THEN "auto_read" ELSE "idle"

\* a script run starts in session s with the checkbox at auto_mode and at most
\* one button pressed; the stop button exists only while the checkbox is
\* ticked, and a run started by the checkbox has no button pressed.  The run
\* goes on to the first point at which it is about to read the machine
StartRun(s, auto_mode, record_button, stop_auto) ==
  LET prev_set == IF "prev_mood" \in DOMAIN session_state[s]
                    THEN session_state[s]
                    ELSE Put(session_state[s], "prev_mood", "Neutral")
      handled  == AfterHandlers(prev_set, auto_mode, stop_auto)
  IN  /\ pc[s] = "idle"
      /\ ~(record_button /\ stop_auto)
      /\ stop_auto => (auto_mode /\ run[s].auto_mode)
      /\ auto_mode # run[s].auto_mode => ~record_button
      /\ run' = [run EXCEPT ![s] =
                   [auto_mode |-> auto_mode, stop_auto |-> stop_auto,
                    auto_cycle |-> FALSE, rerun |-> FALSE]]
      /\ GetGraphvizSource
      /\ IF record_button
           THEN /\ session_state' = [session_state EXCEPT ![s] = prev_set]
                /\ pc' = [pc EXCEPT ![s] = "record_read"]
           ELSE /\ session_state' = [session_state EXCEPT ![s] = handled]
                /\ pc' = [pc EXCEPT ![s] = AfterHandlersPc(handled)]
      /\ UNCHANGED locals

\* handle_audio_cycle up to the saving of the previous mood: record,
\* transcribe, predict, previous = fsm.state, prev_mood = previous
CycleRead(s) ==
  /\ pc[s] \in {"record_read", "auto_read"}
  /\ \E p \in Predictions :
       locals' = [locals EXCEPT ![s] =
                    [emo_pred |-> p.emo, sent_pred |-> p.sent,
                     previous |-> state, new_state |-> None]]
  /\ ReadState
  /\ session_state' = [session_state EXCEPT ![s] = Put(@, "prev_mood", state)]
  /\ pc' = [pc EXCEPT ![s] = IF pc[s] = "record_read" THEN "record_update"
                                                      ELSE "auto_update"]
  /\ UNCHANGED run

\* new_state = fsm.update_from_nlp(emo_pred, sent_pred)
CycleUpdate(s) ==
  /\ pc[s] \in {"record_update", "auto_update"}
  /\ UpdateFromNlp(locals[s].emo_pred, locals[s].sent_pred)
  /\ locals' = [locals EXCEPT ![s].new_state = ret']
  /\ pc' = [pc EXCEPT ![s] = IF pc[s] = "record_update" THEN "record_render"
                                                        ELSE "auto_render"]
  /\ UNCHANGED <<run, session_state>>

\* the rest of handle_audio_cycle (the placeholders and the graph are drawn
\* from fsm.state), then the rest of the run: after the cycle of the record
\* button the handlers, after the cycle of the auto loop sleep and
\* st.experimental_rerun(), which ends the run
CycleRender(s) ==
  LET handled == AfterHandlers(session_state[s], run[s].auto_mode, run[s].stop_auto)
  IN  /\ pc[s] \in {"record_render", "auto_render"}
      /\ GetGraphvizSource
      /\ locals' = [locals EXCEPT ![s] = NoLocals]
      /\ IF pc[s] = "record_render"
           THEN /\ session_state' = [session_state EXCEPT ![s] = handled]
                /\ pc' = [pc EXCEPT ![s] = AfterHandlersPc(handled)]
                /\ UNCHANGED run
           ELSE /\ run' = [run EXCEPT ![s].auto_cycle = TRUE, ![s].rerun = TRUE]
                /\ pc' = [pc EXCEPT ![s] = "idle"]
                /\ UNCHANGED session_state

NextHost ==
  \/ \E s \in Sessions, auto_mode, record_button, stop_auto \in BOOLEAN :
       StartRun(s, auto_mode, record_button, stop_auto)
  \/ \E s \in Sessions : CycleRead(s)
  \/ \E s \in Sessions : CycleUpdate(s)
  \/ \E s \in Sessions : CycleRender(s)

SpecHost == Init /\ [][NextHost]_vars

(***************************************************************************)
(* Vocabulary of the properties.                                           *)
(***************************************************************************)
\* the highest-weight label of a non-empty distribution: no item weighs more,
\* and every earlier item weighs less
HighestWeightLabel(d) ==
  d[CHOOSE i \in 1..Len(d) :
      /\ \A j \in 1..Len(d) : d[j].score <= d[i].score
      /\ \A j \in 1..(i - 1) : d[j].score < d[i].score].label

\* the emotion distribution yields no state: it is empty, or its top label,
\* lower-cased, is not a key of the label-to-state map
NoEmotionState(d) ==
  d = <<>> \/ Lower(HighestWeightLabel(d)) \notin DOMAIN mapping

\* the state the sentiment fallback assigns to a label
SentimentState(label) ==
  IF Upper(label) = POSITIVE THEN "Happy"
  ELSE IF Upper(label) = NEGATIVE THEN "Sad"
  ELSE "Neutral"

\* C1: the current state is always one of the seven states, never unset, and
\* it is Neutral right after construction
C1_CurrentIsAState ==
  /\ state \in States
  /\ state # None
  /\ Cardinality(States) = 7
  /\ op = "init" => state = "Neutral"

C1_Witness == op = "graph" /\ state = "Surprised"

\* C2: update_from_nlp raises nothing and returns one of the seven states,
\* for every pair of distributions (empty, all-zero, empty-string and unknown
\* labels included)
C2_Totality ==
  op = "update" => (err = "none" /\ ret \in States /\ ret = state)

C2_Witness ==
  /\ op = "update"
  /\ emotion_scores = << [label |-> EmptyLabel, score |-> 0],
                         [label |-> Unknown, score |-> 0] >>
  /\ sentiment_scores = <<>>
  /\ ret = "Neutral"

\* C3: when the top emotion label, lower-cased, is a key of the map, the
\* selected state is the state the map gives for it, whatever the sentiment
C3_EmotionPrecedence ==
  (op = "update" /\ emotion_scores # <<>>
     /\ Lower(HighestWeightLabel(emotion_scores)) \in DOMAIN mapping)
    => /\ ret = mapping[Lower(HighestWeightLabel(emotion_scores))]
       /\ state = ret

C3_Witness ==
  /\ op = "update"
  /\ emotion_scores = << [label |-> SAD, score |-> 1], [label |-> joy, score |-> 0] >>
  /\ sentiment_scores = << [label |-> POSITIVE, score |-> 1] >>
  /\ ret = "Sad"

\* C4: when the emotion distribution yields no state and the sentiment
\* distribution is non-empty, the selected state is Happy for POSITIVE, Sad
\* for NEGATIVE (upper-cased top sentiment label) and Neutral otherwise
C4_SentimentFallback ==
  (op = "update" /\ NoEmotionState(emotion_scores) /\ sentiment_scores # <<>>)
    => /\ ret = SentimentState(HighestWeightLabel(sentiment_scores))
       /\ state = ret

C4_Witness ==
  /\ op = "update"
  /\ emotion_scores = << [label |-> Unknown, score |-> 1] >>
  /\ sentiment_scores = << [label |-> positive, score |-> 1],
                           [label |-> Negative, score |-> 0] >>
  /\ ret = "Happy"

\* C5: when the emotion distribution yields no state and the sentiment
\* distribution is empty, the selected state is Neutral and the current state
\* becomes Neutral from whatever state the machine was in
C5_UltimateFallback ==
  [][ (op' = "update" /\ NoEmotionState(emotion_scores')
         /\ sentiment_scores' = <<>>)
        => (ret' = "Neutral" /\ state' = "Neutral") ]_vars

C5_Witness ==
  /\ op = "update"
  /\ emotion_scores = << [label |-> Unknown, score |-> 1], [label |-> joy, score |-> 0] >>
  /\ sentiment_scores = <<>>
  /\ state = "Neutral"

\* C6: from every state A, a transition to every state B (A = B included)
\* raises nothing and leaves the machine in B; every such transition is
\* possible in every reachable state, so no state is terminal
C6_MachineCompleteness ==
  /\ [][ \A A, B \in States :
           (state = A /\ op' = "apply" /\ arg' = B)
             => (state' = B /\ err' = "none") ]_vars
  /\ [](\A B \in States :
          ENABLED (ApplyTransition(B) /\ state' = B /\ err' = "none"))

C6_Witness == op = "apply" /\ arg = "Curious" /\ state = "Curious" /\ err = "none"

\* C7: the graph returned by get_graphviz_source has exactly 7 nodes, one per
\* state, and exactly 42 edges, one per ordered pair of distinct states;
\* exactly one node is filled, and it is the current state
C7_GraphInvariant ==
  op = "graph" =>
    LET nodeNames == {ret.nodes[i].name : i \in 1..Len(ret.nodes)}
        edgePairs == {<<ret.edges[i].tail, ret.edges[i].head>> : i \in 1..Len(ret.edges)}
        active    == {i \in 1..Len(ret.nodes) : ret.nodes[i].style = "filled"}
    IN  /\ Len(ret.nodes) = 7
        /\ nodeNames = States
        /\ Len(ret.edges) = 42
        /\ Cardinality(edgePairs) = 42
        /\ edgePairs = {p \in States \X States : p[1] # p[2]}
        /\ Cardinality(active) = 1
        /\ \A i \in active : ret.nodes[i].name = state

C7_Witness ==
  /\ op = "graph"
  /\ state = "Fearful"
  /\ \E i \in 1..Len(ret.nodes) :
       ret.nodes[i].name = "Fearful" /\ ret.nodes[i].style = "filled"

\* C8 as stated: a target outside the seven states makes the transition fail
\* with InvalidState and leaves the current state unchanged
C8_InvalidTargetFailsFast ==
  [][ (op' = "apply" /\ arg' \notin States)
        => (err' = "InvalidState" /\ state' = state) ]_vars

\* C8 as amended: a target outside the seven states raises no error and moves
\* the machine to Neutral
C8_InvalidTargetDefaultsToNeutral ==
  [][ (op' = "apply" /\ arg' \notin States)
        => (err' = "none" /\ state' = "Neutral") ]_vars

C8_Witness == op = "apply" /\ arg = "Bored" /\ state = "Neutral" /\ err = "none"

\* C9: reading the current state and get_graphviz_source change no field of
\* the machine, and a query repeated right after itself returns the same result
C9_QueriesArePure ==
  [][ (op' \in {"graph", "read"})
        => /\ state' = state
           /\ mood_score' = mood_score
           /\ err' = "none"
           /\ (op' = op => ret' = ret) ]_vars

C9_Witness == op = "read" /\ ret = "Angry" /\ state = "Angry"

\* two labels that differ only in the case of their letters
CaseVariant(a, b) ==
  /\ Len(a) = Len(b)
  /\ \A i \in 1..Len(a) :
       \/ a[i] = b[i]
       \/ b[i] \in {LowerChar(a[i]), UpperChar(a[i])}
       \/ a[i] \in {LowerChar(b[i]), UpperChar(b[i])}

\* the distributions that differ from d only in the case of letters of labels
CaseVariants(d, labels) ==
  { e \in Dists(labels, Len(d)) :
      /\ Len(e) = Len(d)
      /\ \A i \in 1..Len(d) :
           e[i].score = d[i].score /\ CaseVariant(d[i].label, e[i].label) }

\* C10: changing the case of letters of any emotion or sentiment label, the
\* weights and the order kept and no two labels made equal, does not change
\* the selected state
C10_CaseInsensitive ==
  op = "update" =>
    \A e \in CaseVariants(emotion_scores, EmotionLabels),
       s \in CaseVariants(sentiment_scores, SentimentLabels) :
         Select(e, s) = ret

\* C13: when the top emotion label is not in the map, the selection falls
\* through to the sentiment fallback (or to Neutral), even if an emotion label
\* of lower weight is in the map
C13_OnlyTopEmotionLabel ==
  (op = "update" /\ emotion_scores # <<>>
     /\ Lower(HighestWeightLabel(emotion_scores)) \notin DOMAIN mapping
     /\ \E i \in 1..Len(emotion_scores) :
          Lower(emotion_scores[i].label) \in DOMAIN mapping)
    => ret = IF sentiment_scores = <<>>
               THEN "Neutral"
               ELSE SentimentState(HighestWeightLabel(sentiment_scores))

C13_Witness ==
  /\ op = "update"
  /\ emotion_scores = << [label |-> joy, score |-> 0], [label |-> Unknown, score |-> 1] >>
  /\ sentiment_scores = << [label |-> Negative, score |-> 1] >>
  /\ ret = "Sad"

\* the positions of the items of greatest weight
MaxIndices(d) == {i \in 1..Len(d) : \A j \in 1..Len(d) : d[j].score <= d[i].score}

\* several labels share the greatest weight
Tied(d) == Cardinality(MaxIndices(d)) > 1

\* the label of greatest weight that comes first in iteration order
FirstOfTied(d) ==
  d[CHOOSE i \in MaxIndices(d) : \A j \in MaxIndices(d) : i <= j].label

\* C14: when several labels share the maximum weight, the top label is the
\* first of them in iteration order, for the emotion and for the sentiment
\* distribution, and it is the one the selected state comes from
C14_TieBreak ==
  /\ \A d \in {emotion_scores, sentiment_scores} :
       Tied(d) => TopLabel(d) = << FirstOfTied(d) >>
  /\ (op = "update" /\ Tied(emotion_scores)
        /\ Lower(FirstOfTied(emotion_scores)) \in DOMAIN mapping)
       => ret = mapping[Lower(FirstOfTied(emotion_scores))]
  /\ (op = "update" /\ Tied(sentiment_scores)
        /\ (emotion_scores = <<>>
              \/ Lower(FirstOfTied(emotion_scores)) \notin DOMAIN mapping))
       => ret = SentimentState(FirstOfTied(sentiment_scores))

C14_Witness ==
  /\ op = "update"
  /\ emotion_scores = << [label |-> SAD, score |-> 1], [label |-> joy, score |-> 1] >>
  /\ sentiment_scores = <<>>
  /\ ret = "Sad"

\* C15: the state after update_from_nlp and the value it returns depend on
\* the two distributions only: the same call made from any other state of the
\* machine ends in the same state
C15_HistoryIndependent ==
  [][ op' = "update"
        => /\ ret' = state'
           /\ \A other \in States :
                ApplyResult(other, Select(emotion_scores', sentiment_scores')).state
                  = state' ]_vars

C15_Witness ==
  /\ op = "update"
  /\ emotion_scores = << [label |-> SAD, score |-> 1] >>
  /\ sentiment_scores = << [label |-> MIXED, score |-> 1] >>
  /\ state = "Sad"

\* the positions of a script run inside handle_audio_cycle
UpdatePcs == {"record_update", "auto_update"}

RenderPcs == {"record_render", "auto_render"}

AutoPcs == {"auto_read", "auto_update", "auto_render"}

\* C11: after every cycle of handle_audio_cycle the previous-mood record of
\* the session is the state the machine held immediately before the cycle's
\* transition, and the machine's current state is the state selected in that
\* cycle
C11_PreviousStateRecord ==
  [][ \A s \in Sessions :
        /\ (pc[s] \in UpdatePcs /\ pc'[s] \in RenderPcs)
             => /\ "prev_mood" \in DOMAIN session_state[s]
                /\ session_state[s]["prev_mood"] = state
                /\ state' = Select(locals[s].emo_pred, locals[s].sent_pred)
        /\ (pc[s] \in RenderPcs /\ pc'[s] \notin RenderPcs)
             => /\ state = locals[s].new_state
                /\ session_state[s]["prev_mood"] = locals[s].previous ]_vars

\* C12: the cycles run strictly one after the other: no transition of another
\* session's cycle falls between a cycle's read of the previous state and the
\* end of its rendering
C12_SerialCycles ==
  [][ \A s, t \in Sessions :
        (s # t /\ pc[s] \in UpdatePcs \cup RenderPcs)
          => ~(pc[t] \in UpdatePcs /\ pc'[t] \in RenderPcs) ]_vars

\* C16: a script run with the checkbox ticked and the stop button not pressed
\* makes a cycle in the auto loop and asks for a rerun; a run with the stop
\* button pressed sets auto_running to False and makes no cycle
C16_AutoRepeatsUntilStopped ==
  \A s \in Sessions :
    /\ (pc[s] = "idle" /\ run[s].auto_mode /\ ~run[s].stop_auto)
         => (run[s].auto_cycle /\ run[s].rerun)
    /\ run[s].stop_auto
         => /\ "auto_running" \in DOMAIN session_state[s]
            /\ session_state[s]["auto_running"] = FALSE
            /\ pc[s] = "idle"
            /\ ~run[s].auto_cycle
            /\ ~run[s].rerun

C16_Witness ==
  /\ pc[1] = "idle" /\ run[1].auto_mode /\ run[1].stop_auto
  /\ pc[2] = "idle" /\ run[2].auto_mode /\ run[2].auto_cycle /\ run[2].rerun
  /\ state = "Surprised"

\* C17: in a script run with the checkbox not ticked the auto loop makes no
\* cycle, so unticking the checkbox stops the automatic cycles
C17_NoAutoCycleWhenOff ==
  \A s \in Sessions :
    ~run[s].auto_mode => (pc[s] \notin AutoPcs /\ ~run[s].auto_cycle)

====
